---- MODULE Spec2Model ----
(***************************************************************************)
(* A model of the vsqlite interactive session core: the command router     *)
(* (executor), the history store (loadHistory, dedupHistory, saveHistory), *)
(* the renderers' control flow and the completion engine's schema lookups. *)
(* Two variants of the program are modelled: src/main.go ("main") and      *)
(* src/unnamed/part_000 ("legacy").                                         *)
(*                                                                         *)
(* Text is modelled as a sequence of one-character strings, so that        *)
(* trimming, prefix tests and the history file's line structure are        *)
(* computed the way the Go code computes them.                             *)
(***************************************************************************)
EXTENDS Integers, Sequences, FiniteSets, TLC

VARIABLES
    variant,       \* "main" (src/main.go) or "legacy" (src/unnamed/part_000)
    pc,            \* position of the process: see PcValues
    historyFile,   \* content of ~/.vsqlite_history, a sequence of characters
    historyLines,  \* var historyLines []string
    expandedMode,  \* var expandedMode bool
    jsonMode,      \* var jsonMode bool (main variant only)
    out,           \* what the last step printed, a sequence of message names
    eng,           \* what the engine / file system answered in the last step
    suggestions,   \* what the last completer call returned
    loaded,        \* history: historyLines as loadHistory left it
    submitted,     \* history: the raw lines handed to executor so far
    saves,         \* history: number of calls of saveHistory
    arg,           \* input of the pure function under check (function specs)
    res            \* its result

vars == <<variant, pc, historyFile, historyLines, expandedMode, jsonMode, out,
          eng, suggestions, loaded, submitted, saves, arg, res>>

-----------------------------------------------------------------------------
(* Bounds of the model. *)

\* Number of lines submitted to executor in one session.
MaxSubmit == 2
\* Number of rows a result set holds.
MaxRows == 2
\* Number of entries of a list given to dedupHistory.
MaxLog == 5
\* Number of entries of a log in the save / load round trip.
MaxRoundLog == 2
\* Length of an entry in the save / load round trip.
MaxRoundLen == 3

-----------------------------------------------------------------------------
(* strings: the functions of Go's strings package the program uses. *)

\* unicode.IsSpace restricted to the characters a TLA+ string can hold.
WhiteSpace == {" ", "\t", "\n", "\r", "\f"}

RECURSIVE TrimLeftSpace(_)
TrimLeftSpace(s) ==
    IF s # <<>> /\ Head(s) \in WhiteSpace THEN TrimLeftSpace(Tail(s)) ELSE s

RECURSIVE TrimRightSpace(_)
TrimRightSpace(s) ==
    IF s # <<>> /\ s[Len(s)] \in WhiteSpace
    THEN TrimRightSpace(SubSeq(s, 1, Len(s) - 1))
    ELSE s

\* strings.TrimSpace
TrimSpace(s) == TrimRightSpace(TrimLeftSpace(s))

\* strings.HasPrefix
HasPrefix(s, p) == Len(s) >= Len(p) /\ SubSeq(s, 1, Len(p)) = p

\* strings.HasSuffix
HasSuffix(s, p) ==
    Len(s) >= Len(p) /\ SubSeq(s, Len(s) - Len(p) + 1, Len(s)) = p

\* strings.TrimPrefix
TrimPrefix(s, p) == IF HasPrefix(s, p) THEN SubSeq(s, Len(p) + 1, Len(s)) ELSE s

\* strings.TrimSuffix
TrimSuffix(s, p) == IF HasSuffix(s, p) THEN SubSeq(s, 1, Len(s) - Len(p)) ELSE s

\* strings.Fields: the maximal runs of non-space characters of s, in order.
RECURSIVE FieldsFrom(_, _, _)
FieldsFrom(s, cur, acc) ==
    IF s = <<>>
    THEN IF cur = <<>> THEN acc ELSE Append(acc, cur)
    ELSE IF Head(s) \in WhiteSpace
         THEN FieldsFrom(Tail(s), <<>>, IF cur = <<>> THEN acc ELSE Append(acc, cur))
         ELSE FieldsFrom(Tail(s), Append(cur, Head(s)), acc)

Fields(s) == FieldsFrom(s, <<>>, <<>>)

\* strings.Join(block, "\n")
RECURSIVE JoinLines(_)
JoinLines(block) ==
    IF block = <<>> THEN <<>>
    ELSE IF Len(block) = 1 THEN block[1]
    ELSE block[1] \o <<"\n">> \o JoinLines(Tail(block))

-----------------------------------------------------------------------------
(* The history store. *)

\* const customHistoryDelimiter = "---"
customHistoryDelimiter == <<"-", "-", "-">>

\* bufio.ScanLines' dropCR: a line loses one trailing carriage return.
dropCR(line) ==
    IF line # <<>> /\ line[Len(line)] = "\r"
    THEN SubSeq(line, 1, Len(line) - 1)
    ELSE line

\* bufio.Scanner with the default split function: the lines of the data, each
\* without its line end; a last line without a line end counts when it is
\* not empty.
RECURSIVE ScanLinesFrom(_, _, _)
ScanLinesFrom(data, cur, acc) ==
    IF data = <<>>
    THEN IF cur = <<>> THEN acc ELSE Append(acc, dropCR(cur))
    ELSE IF Head(data) = "\n"
         THEN ScanLinesFrom(Tail(data), <<>>, Append(acc, dropCR(cur)))
         ELSE ScanLinesFrom(Tail(data), Append(cur, Head(data)), acc)

ScanLines(data) == ScanLinesFrom(data, <<>>, <<>>)

\* A plausible slip: a command equal to the last entry is not recorded again.
saveToHistorySkipRepeat(lines, cmd) ==
    IF lines # <<>> /\ TrimSpace(lines[Len(lines)]) = cmd
    THEN lines
    ELSE Append(lines, cmd)

\* saveToHistory: the command is appended, whatever it is.
saveToHistory(lines, cmd) == Append(lines, cmd)

\* The first loop of dedupHistory: scanning from the last index down, the
\* map from trimmed text to the index first met for it.
RECURSIVE seenFrom(_, _, _)
seenFrom(lines, i, seen) ==
    IF i = 0 THEN seen
    ELSE LET line == TrimSpace(lines[i])
         IN  IF line = <<>>
             THEN seenFrom(lines, i - 1, seen)
             ELSE IF line \in DOMAIN seen
                  THEN seenFrom(lines, i - 1, seen)
                  ELSE seenFrom(lines, i - 1, seen @@ (line :> i))

\* sort.Ints over the values of the map.
RECURSIVE sortInts(_)
sortInts(S) ==
    IF S = {} THEN <<>>
    ELSE LET m == CHOOSE x \in S : \A y \in S : x <= y
         IN  <<m>> \o sortInts(S \ {m})

\* A plausible slip: the kept entries rebuilt "from most recent to oldest",
\* as the comment in the code says, instead of by ascending index.
dedupHistoryDescending(lines) ==
    LET seen    == seenFrom(lines, Len(lines), [x \in {} |-> 0])
        asc     == sortInts({seen[k] : k \in DOMAIN seen})
        n       == Len(asc)
    IN  [k \in 1..n |-> lines[asc[n + 1 - k]]]

\* A plausible slip: the map keyed by the raw text instead of the trimmed one.
RECURSIVE seenRawFrom(_, _, _)
seenRawFrom(lines, i, seen) ==
    IF i = 0 THEN seen
    ELSE IF TrimSpace(lines[i]) = <<>> \/ lines[i] \in DOMAIN seen
         THEN seenRawFrom(lines, i - 1, seen)
         ELSE seenRawFrom(lines, i - 1, seen @@ (lines[i] :> i))

dedupHistoryRawKey(lines) ==
    LET seen    == seenRawFrom(lines, Len(lines), [x \in {} |-> 0])
        indices == sortInts({seen[k] : k \in DOMAIN seen})
    IN  [k \in 1..Len(indices) |-> lines[indices[k]]]

\* A plausible slip: the scan running forward, so that the oldest occurrence
\* of a text is the one kept.
RECURSIVE seenForward(_, _, _)
seenForward(lines, i, seen) ==
    IF i > Len(lines) THEN seen
    ELSE LET line == TrimSpace(lines[i])
         IN  IF line = <<>> \/ line \in DOMAIN seen
             THEN seenForward(lines, i + 1, seen)
             ELSE seenForward(lines, i + 1, seen @@ (line :> i))

dedupHistoryOldest(lines) ==
    LET seen    == seenForward(lines, 1, [x \in {} |-> 0])
        indices == sortInts({seen[k] : k \in DOMAIN seen})
    IN  [k \in 1..Len(indices) |-> lines[indices[k]]]

\* dedupHistory
dedupHistory(lines) ==
    LET seen    == seenFrom(lines, Len(lines), [x \in {} |-> 0])
        indices == sortInts({seen[k] : k \in DOMAIN seen})
    IN  [k \in 1..Len(indices) |-> lines[indices[k]]]

\* The scanner loop of loadHistory over the lines from index i on: block is
\* the block being collected, hist the entries appended so far.
RECURSIVE loadBlocks(_, _, _)
loadBlocks(lines, block, hist) ==
    IF lines = <<>>
    THEN IF Len(block) > 0 THEN Append(hist, JoinLines(block)) ELSE hist
    ELSE IF Head(lines) = customHistoryDelimiter
         THEN IF Len(block) > 0
              THEN loadBlocks(Tail(lines), <<>>, Append(hist, JoinLines(block)))
              ELSE loadBlocks(Tail(lines), block, hist)
         ELSE loadBlocks(Tail(lines), Append(block, Head(lines)), hist)

\* loadHistory on a file that opens: historyLines after it, given
\* historyLines before it.
loadHistory(file, lines) == dedupHistory(loadBlocks(ScanLines(file), <<>>, lines))

\* What saveHistory writes for one entry.
entryBlock(entry) ==
    customHistoryDelimiter \o <<"\n">> \o entry
        \o (IF HasSuffix(entry, <<"\n">>) THEN <<>> ELSE <<"\n">>)

RECURSIVE entryBlocks(_)
entryBlocks(lines) ==
    IF lines = <<>> THEN <<>>
    ELSE entryBlock(Head(lines)) \o entryBlocks(Tail(lines))

\* A plausible slip: the log deduplicated before it is written.
saveHistoryDeduplicated(file, lines) ==
    IF Len(lines) = 0 THEN file ELSE file \o entryBlocks(dedupHistory(lines))

\* saveHistory on a file that opens for appending: the file after it.
saveHistory(file, lines) ==
    IF Len(lines) = 0 THEN file ELSE file \o entryBlocks(lines)

-----------------------------------------------------------------------------
(* The command router: the tokens executor compares the query with. *)

cmdExit        == <<"e", "x", "i", "t">>
cmdExpanded    == <<"\\", "x">>
cmdJSON        == <<"\\", "j">>
prefixDescribe == <<"\\", "d", " ">>
cmdRelations   == <<"\\", "d">>
cmdIndexes     == <<"\\", "d", "i">>
prefixSchema   == <<".", "s", "c", "h", "e", "m", "a">>
semicolon      == <<";">>

Variants == {"main", "legacy"}

\* A plausible slip: the schema dump recognised by comparison instead of by
\* prefix, so that ".schema <table>" runs on to db.Query.
classifySchemaExact(query) ==
    IF query = cmdExit THEN "exit"
    ELSE IF query = cmdExpanded THEN "expanded"
    ELSE IF query = cmdJSON THEN "json"
    ELSE IF HasPrefix(query, prefixDescribe) THEN "describe"
    ELSE IF \/ TrimSpace(query) = cmdRelations
            \/ TrimSpace(query) = cmdRelations \o semicolon
         THEN "relations"
    ELSE IF \/ TrimSpace(query) = cmdIndexes
            \/ TrimSpace(query) = cmdIndexes \o semicolon
         THEN "indexes"
    ELSE IF query = prefixSchema THEN "schema"
    ELSE "statement"

\* The switch of executor: the case the (trimmed, non-empty) query takes, the
\* cases tried in the order of the code.
classify(query) ==
    IF query = cmdExit THEN "exit"
    ELSE IF query = cmdExpanded THEN "expanded"
    ELSE IF query = cmdJSON THEN "json"
    ELSE IF HasPrefix(query, prefixDescribe) THEN "describe"
    ELSE IF \/ TrimSpace(query) = cmdRelations
            \/ TrimSpace(query) = cmdRelations \o semicolon
         THEN "relations"
    ELSE IF \/ TrimSpace(query) = cmdIndexes
            \/ TrimSpace(query) = cmdIndexes \o semicolon
         THEN "indexes"
    ELSE IF HasPrefix(query, prefixSchema) THEN "schema"
    ELSE "statement"

\* The switch of executor in the legacy variant: exit, \x and .schema only.
classifyLegacy(query) ==
    IF query = cmdExit THEN "exit"
    ELSE IF query = cmdExpanded THEN "expanded"
    ELSE IF HasPrefix(query, prefixSchema) THEN "schema"
    ELSE "statement"

\* The case the query takes in the variant v.
caseOf(v, query) == IF v = "main" THEN classify(query) ELSE classifyLegacy(query)

\* The lines the user submits in the model: a blank line, every meta-command,
\* near misses of the meta-commands, a statement that needs trimming, and a
\* line that is the sentinel of the history file.
InputLines ==
    { <<" ">>,
      cmdExit,
      cmdExpanded,
      cmdJSON,
      prefixDescribe \o <<"t">>,
      prefixDescribe \o semicolon,
      cmdRelations,
      cmdIndexes,
      cmdRelations \o <<"t">>,
      prefixSchema,
      prefixSchema \o <<" ", "t">>,
      <<" ", "q", "\n">>,
      customHistoryDelimiter }

\* The history files a session starts with: empty, a duplicated entry
\* around another one, and an entry of two lines.
InitFiles ==
    { <<>>,
      customHistoryDelimiter \o <<"\n", "q", "\n">>
          \o customHistoryDelimiter \o <<"\n", "\\", "x", "\n">>
          \o customHistoryDelimiter \o <<"\n", " ", "q", "\n">>,
      customHistoryDelimiter \o <<"\n", "q", "\n", "r", "\n">> }

\* What the engine (or the file system) answered in a step: the operation
\* asked for, the call that failed, the number of rows of the result, the
\* row whose Scan failed (0: none), and a second count where one is needed.
Answer(op, fail, rows, scanErr, aux) ==
    [op |-> op, fail |-> fail, rows |-> rows, scanErr |-> scanErr, aux |-> aux]

NoAnswer == Answer("none", "none", 0, 0, 0)

\* n copies of the message m.
Times(m, n) == [k \in 1..n |-> m]

PcValues == {"start", "prompt", "done", "exited", "crashed", "failed",
             "call", "saved", "returned", "again"}

-----------------------------------------------------------------------------
(* The session. *)

Init ==
    /\ variant \in Variants
    /\ pc = "start"
    /\ historyFile \in InitFiles
    /\ historyLines = <<>>
    /\ expandedMode = FALSE
    /\ jsonMode = FALSE
    /\ out = <<>>
    /\ eng = NoAnswer
    /\ suggestions = <<>>
    /\ loaded = <<>>
    /\ submitted = <<>>
    /\ saves = 0
    /\ arg = <<>>
    /\ res = <<>>

\* main: the database cannot be opened (or no argument is given): os.Exit(1).
StartFail ==
    /\ pc = "start"
    /\ pc' = "failed"
    /\ eng' = Answer("open", "open", 0, 0, 0)
    /\ UNCHANGED <<variant, historyFile, historyLines, expandedMode, jsonMode,
                   out, suggestions, loaded, submitted, saves, arg, res>>

\* main up to prompt.New: loadHistory, which leaves historyLines alone when
\* the file does not open.
Start ==
    /\ pc = "start"
    /\ \E ok \in BOOLEAN :
          /\ historyLines' = IF ok THEN loadHistory(historyFile, historyLines)
                                   ELSE historyLines
          /\ eng' = Answer("load", IF ok THEN "none" ELSE "open", 0, 0, 0)
    /\ loaded' = historyLines'
    /\ pc' = "prompt"
    /\ out' = <<"Help">>
    /\ UNCHANGED <<variant, historyFile, expandedMode, jsonMode, suggestions,
                   submitted, saves, arg, res>>

\* What every call of executor does first, for the raw line input.
Submit(input) ==
    /\ pc = "prompt"
    /\ Len(submitted) < MaxSubmit
    /\ submitted' = Append(submitted, input)
    /\ suggestions' = <<>>
    /\ UNCHANGED <<variant, historyFile, loaded, saves, arg, res>>

\* executor on a line that is empty after trimming: it returns at once.
ExecBlank ==
    \E input \in InputLines :
        /\ TrimSpace(input) = <<>>
        /\ Submit(input)
        /\ out' = <<>>
        /\ eng' = NoAnswer
        /\ UNCHANGED <<pc, historyLines, expandedMode, jsonMode>>

\* executor, case query == "exit": os.Exit(0), straight after saveToHistory.
ExecExit ==
    \E input \in InputLines :
        LET query == TrimSpace(input) IN
        /\ query # <<>>
        /\ caseOf(variant, query) = "exit"
        /\ Submit(input)
        /\ historyLines' = saveToHistory(historyLines, query)
        /\ pc' = "exited"
        /\ out' = <<>>
        /\ eng' = NoAnswer
        /\ UNCHANGED <<expandedMode, jsonMode>>

\* A plausible slip: the expanded toggle leaving jsonMode as it is.
ToggleExpandedKeepJSON(e, j) == [expanded |-> ~e, json |-> j]

\* executor, case \x: the flags after it.
ToggleExpanded(e, j) ==
    [expanded |-> ~e, json |-> IF ~e THEN FALSE ELSE j]

\* executor, case \j: the flags after it.
ToggleJSON(e, j) ==
    [expanded |-> IF ~j THEN FALSE ELSE e, json |-> ~j]

onOff(b) == IF b THEN "on" ELSE "off"

ExecToggleExpanded ==
    \E input \in InputLines :
        LET query == TrimSpace(input)
            flags == ToggleExpanded(expandedMode, jsonMode) IN
        /\ query # <<>>
        /\ caseOf(variant, query) = "expanded"
        /\ Submit(input)
        /\ historyLines' = saveToHistory(historyLines, query)
        /\ expandedMode' = flags.expanded
        /\ jsonMode' = flags.json
        /\ out' = <<"Expanded display is now", onOff(flags.expanded)>>
        /\ eng' = NoAnswer
        /\ UNCHANGED pc

ExecToggleJSON ==
    \E input \in InputLines :
        LET query == TrimSpace(input)
            flags == ToggleJSON(expandedMode, jsonMode) IN
        /\ query # <<>>
        /\ caseOf(variant, query) = "json"
        /\ Submit(input)
        /\ historyLines' = saveToHistory(historyLines, query)
        /\ expandedMode' = flags.expanded
        /\ jsonMode' = flags.json
        /\ out' = <<"JSON output is now", onOff(flags.json)>>
        /\ eng' = NoAnswer
        /\ UNCHANGED pc

-----------------------------------------------------------------------------
(* The renderers, as far as control flow goes: what is printed, whether    *)
(* an error is returned. The answer a is the engine's for the statement.   *)

\* The answers of the engine to a statement: db.Query fails; rows.Columns
\* fails (the result is closed, no row comes); or n rows come and Scan fails
\* on row k (0: on none).
StatementAnswers ==
    { Answer("statement", "query", 0, 0, 0),
      Answer("statement", "columns", 0, 0, 0) }
    \cup UNION { { Answer("statement", "none", n, k, 0) : k \in 0..n } :
                 n \in 0..MaxRows }

\* printExpanded
printExpanded(a) ==
    IF a.fail = "columns"
    THEN [out |-> <<"Failed to get columns">>, hasRows |-> FALSE, err |-> TRUE]
    ELSE IF a.scanErr > 0
    THEN [out |-> <<"Failed to scan row">>, hasRows |-> FALSE, err |-> TRUE]
    ELSE IF a.rows = 0
    THEN [out |-> <<>>, hasRows |-> FALSE, err |-> FALSE]
    ELSE [out |-> Times("Record", a.rows), hasRows |-> TRUE, err |-> FALSE]

\* printJSON
printJSON(a) ==
    IF a.fail = "columns" \/ a.scanErr > 0
    THEN [out |-> <<>>, err |-> TRUE]
    ELSE [out |-> <<"JSONArray">> \o Times("JSONObject", a.rows), err |-> FALSE]

\* printPrettyTable: the results of Scan are not looked at; the legacy
\* variant does not look at the result of Columns either and returns nothing.
printPrettyTable(v, a) ==
    IF v = "main" /\ a.fail = "columns"
    THEN [out |-> <<"Failed to get columns">>, err |-> TRUE]
    ELSE [out |-> <<"TableHeader">> \o Times("TableRow", a.rows), err |-> FALSE]

\* A plausible slip: the return after "Query failed" left out, so that
\* the failed statement runs on into the renderer of the active mode.
statementOutputNoReturn(v, e, j, a) ==
    (IF a.fail = "query" THEN <<"Query failed">> ELSE <<>>)
    \o (IF e
        THEN LET r == printExpanded(a) IN
             r.out \o (IF r.err THEN <<"Error printing expanded">>
                       ELSE IF ~r.hasRows THEN <<"No rows found.">> ELSE <<>>)
        ELSE IF j
        THEN LET r == printJSON(a) IN
             r.out \o (IF r.err THEN <<"JSON output error">> ELSE <<>>)
        ELSE LET r == printPrettyTable(v, a) IN
             r.out \o (IF r.err THEN <<"Error printing table">> ELSE <<>>))

\* A plausible slip: the first else of the dispatch left out, so that after
\* the expanded rendering the test of jsonMode runs as well.
statementOutputNoElse(v, e, j, a) ==
    IF a.fail = "query" THEN <<"Query failed">>
    ELSE LET x == printExpanded(a)
             rest == IF j
                     THEN LET r == printJSON(a) IN
                          r.out \o (IF r.err THEN <<"JSON output error">>
                                    ELSE <<>>)
                     ELSE LET r == printPrettyTable(v, a) IN
                          r.out \o (IF r.err THEN <<"Error printing table">>
                                    ELSE <<>>)
         IN  IF ~e THEN rest
             ELSE IF x.err THEN x.out \o <<"Error printing expanded">>
             ELSE x.out
                  \o (IF ~x.hasRows THEN <<"No rows found.">> ELSE <<>>)
                  \o rest

\* executor from db.Query on: what is printed for the answer a with the
\* flags e (expandedMode) and j (jsonMode).
statementOutput(v, e, j, a) ==
    IF a.fail = "query" THEN <<"Query failed">>
    ELSE IF e
    THEN LET r == printExpanded(a) IN
         r.out \o (IF r.err THEN <<"Error printing expanded">>
                   ELSE IF ~r.hasRows THEN <<"No rows found.">> ELSE <<>>)
    ELSE IF j
    THEN LET r == printJSON(a) IN
         r.out \o (IF r.err THEN <<"JSON output error">> ELSE <<>>)
    ELSE LET r == printPrettyTable(v, a) IN
         r.out \o (IF r.err THEN <<"Error printing table">> ELSE <<>>)

\* executor, no case of the switch taken: the query goes to the engine.
ExecStatement ==
    \E input \in InputLines :
        LET query == TrimSpace(input) IN
        /\ query # <<>>
        /\ caseOf(variant, query) = "statement"
        /\ Submit(input)
        /\ historyLines' = saveToHistory(historyLines, query)
        /\ \E a \in StatementAnswers :
              /\ eng' = a
              /\ out' = statementOutput(variant, expandedMode, jsonMode, a)
        /\ UNCHANGED <<pc, expandedMode, jsonMode>>

-----------------------------------------------------------------------------
(* The schema meta-commands. *)

\* The answers of the engine to \d <table>: the PRAGMA that fails (if any),
\* the number of indexes (rows) and of foreign keys (aux) of the table, as
\* far as the function gets to read them.
DescribeAnswers ==
    { Answer("describe", "table_info", 0, 0, 0),
      Answer("describe", "index_list", 0, 0, 0) }
    \cup { Answer("describe", "index_info", n, 0, 0) : n \in 1..MaxRows }
    \cup { Answer("describe", "foreign_key_list", n, 0, 0) : n \in 0..MaxRows }
    \cup { Answer("describe", "none", n, 0, m) : n \in 0..MaxRows, m \in 0..MaxRows }

\* printSchemaPretty. The Close of the foreign key rows is deferred before
\* the error of their query is looked at: when that query fails the rows are
\* nil, and the deferred Close dereferences nil as the function returns.
printSchemaPretty(a) ==
    IF a.fail = "table_info"
    THEN [out |-> <<"Table">>, err |-> TRUE, panic |-> FALSE]
    ELSE IF a.fail \in {"index_list", "index_info"}
    THEN [out |-> <<"Table", "Columns">>, err |-> TRUE, panic |-> FALSE]
    ELSE LET idx == IF a.rows > 0 THEN <<"Indexes">> ELSE <<>> IN
         IF a.fail = "foreign_key_list"
         THEN [out |-> <<"Table", "Columns">> \o idx, err |-> TRUE, panic |-> TRUE]
         ELSE [out |-> <<"Table", "Columns">> \o idx
                          \o (IF a.aux > 0 THEN <<"Foreign Keys">> ELSE <<>>)
                          \o <<"">>,
               err |-> FALSE, panic |-> FALSE]

\* executor, case \d <table>
ExecDescribe ==
    \E input \in InputLines :
        LET query == TrimSpace(input)
            table == TrimSuffix(TrimPrefix(query, prefixDescribe), semicolon) IN
        /\ query # <<>>
        /\ caseOf(variant, query) = "describe"
        /\ Submit(input)
        /\ historyLines' = saveToHistory(historyLines, query)
        /\ IF table = <<>>
           THEN /\ eng' = NoAnswer
                /\ out' = <<"Usage">>
                /\ UNCHANGED pc
           ELSE \E a \in DescribeAnswers :
                    LET r == printSchemaPretty(a) IN
                    /\ eng' = a
                    /\ out' = r.out \o (IF r.err /\ ~r.panic
                                        THEN <<"Schema error">> ELSE <<>>)
                    /\ pc' = IF r.panic THEN "crashed" ELSE pc
        /\ UNCHANGED <<expandedMode, jsonMode>>

\* The answers of the engine to a query whose rows are scanned with an
\* error check: the query fails, or n rows come and Scan fails on row k.
ListAnswers(op) ==
    { Answer(op, "query", 0, 0, 0) }
    \cup UNION { { Answer(op, "none", n, k, 0) : k \in 0..n } : n \in 0..MaxRows }

\* printRelationList: the header is printed before the rows are read.
printRelationList(a) ==
    IF a.fail = "query" THEN [out |-> <<>>, err |-> TRUE]
    ELSE IF a.scanErr > 0
    THEN [out |-> <<"List of relations">> \o Times("Relation", a.scanErr - 1),
          err |-> TRUE]
    ELSE [out |-> <<"List of relations">> \o Times("Relation", a.rows),
          err |-> FALSE]

\* printIndexList: the table is rendered after all rows are read.
printIndexList(a) ==
    IF a.fail = "query" \/ a.scanErr > 0 THEN [out |-> <<>>, err |-> TRUE]
    ELSE [out |-> <<"IndexHeader">> \o Times("IndexRow", a.rows), err |-> FALSE]

\* executor, case \d
ExecRelationList ==
    \E input \in InputLines :
        LET query == TrimSpace(input) IN
        /\ query # <<>>
        /\ caseOf(variant, query) = "relations"
        /\ Submit(input)
        /\ historyLines' = saveToHistory(historyLines, query)
        /\ \E a \in ListAnswers("relations") :
              LET r == printRelationList(a) IN
              /\ eng' = a
              /\ out' = r.out \o (IF r.err THEN <<"Error">> ELSE <<>>)
        /\ UNCHANGED <<pc, expandedMode, jsonMode>>

\* executor, case \di
ExecIndexList ==
    \E input \in InputLines :
        LET query == TrimSpace(input) IN
        /\ query # <<>>
        /\ caseOf(variant, query) = "indexes"
        /\ Submit(input)
        /\ historyLines' = saveToHistory(historyLines, query)
        /\ \E a \in ListAnswers("indexes") :
              LET r == printIndexList(a) IN
              /\ eng' = a
              /\ out' = r.out \o (IF r.err THEN <<"Error">> ELSE <<>>)
        /\ UNCHANGED <<pc, expandedMode, jsonMode>>

\* handleSchemaCommand: with one field all tables are dumped and the results
\* of Scan are not looked at; with more, the one row is scanned and any
\* error reads "No such table.".
handleSchemaCommand(query, a) ==
    IF Len(Fields(query)) = 1
    THEN IF a.fail = "query" THEN <<"Schema query failed">>
         ELSE Times("sql", a.rows)
    ELSE IF a.fail = "query" \/ a.rows = 0 \/ a.scanErr = 1
         THEN <<"No such table.">>
         ELSE <<"sql">>

\* executor, case .schema
ExecSchema ==
    \E input \in InputLines :
        LET query == TrimSpace(input) IN
        /\ query # <<>>
        /\ caseOf(variant, query) = "schema"
        /\ Submit(input)
        /\ historyLines' = saveToHistory(historyLines, query)
        /\ \E a \in ListAnswers("schema") :
              /\ eng' = a
              /\ out' = handleSchemaCommand(query, a)
        /\ UNCHANGED <<pc, expandedMode, jsonMode>>

-----------------------------------------------------------------------------
(* The completion engine. The text before the cursor is given by the rule  *)
(* of completer it matches first (0: none) and the prefix the rule         *)
(* captures; the rule table lists the handler of each rule.                *)

\* completer's rules, in order: what each one suggests.
completionRules ==
    <<"tables", "tables", "columns", "tables", "tables", "columns", "tables",
      "tables">>

\* The rules of the legacy variant, which has no rule for \d.
completionRulesLegacy ==
    <<"tables", "columns", "tables", "tables", "columns", "tables", "tables">>

rulesOf(v) == IF v = "main" THEN completionRules ELSE completionRulesLegacy

\* The names the schema queries return, in the engine's order.
schemaName(k) == IF k % 2 = 1 THEN <<"t", "a">> ELSE <<"T", "b">>

\* The prefixes typed so far.
Prefixes == { <<>>, <<"t">>, <<"T">>, <<"x">> }

\* strings.ToLower on the letters of the model.
lowerChar(c) == IF c = "T" THEN "t" ELSE c
toLower(s) == [k \in 1..Len(s) |-> lowerChar(s[k])]

\* prompt.FilterHasPrefix(list, sub, true)
filterHasPrefix(list, sub) ==
    IF sub = <<>> THEN list
    ELSE LET keep(x) == HasPrefix(toLower(x.text), toLower(sub))
         IN  SelectSeq(list, keep)

\* The answers of the engine to a schema query of the completer: it fails,
\* or n rows come.
CompletionAnswers ==
    { Answer("complete", "query", 0, 0, 0) }
    \cup { Answer("complete", "none", n, 0, 0) : n \in 0..MaxRows }

\* getTableSuggestions: nil when the query fails.
getTableSuggestions(a) ==
    IF a.fail = "query"
    THEN [list |-> <<>>, panic |-> FALSE]
    ELSE [list |-> [k \in 1..a.rows |->
                       [text |-> schemaName(k), description |-> "table"]],
          panic |-> FALSE]

\* getTableSuggestions of the legacy variant: the error of the query is
\* dropped (rows, _ := db.Query), and rows.Next is called on the nil rows.
getTableSuggestionsLegacy(a) ==
    IF a.fail = "query"
    THEN [list |-> <<>>, panic |-> TRUE]
    ELSE [list |-> [k \in 1..a.rows |->
                       [text |-> schemaName(k), description |-> "table"]],
          panic |-> FALSE]

\* getColumnSuggestions: nil when the query fails, in both variants.
getColumnSuggestions(a) ==
    IF a.fail = "query"
    THEN [list |-> <<>>, panic |-> FALSE]
    ELSE [list |-> [k \in 1..a.rows |->
                       [text |-> schemaName(k), description |-> "column"]],
          panic |-> FALSE]

\* completer, called by the line editor while the user types.
Complete ==
    /\ pc = "prompt"
    /\ \E rule \in 0..Len(rulesOf(variant)) :
          IF rule = 0
          THEN /\ suggestions' = <<>>
               /\ eng' = NoAnswer
               /\ UNCHANGED pc
          ELSE \E sub \in Prefixes, a \in CompletionAnswers :
                  LET r == IF rulesOf(variant)[rule] = "columns"
                           THEN getColumnSuggestions(a)
                           ELSE IF variant = "main"
                           THEN getTableSuggestions(a)
                           ELSE getTableSuggestionsLegacy(a) IN
                  /\ suggestions' = filterHasPrefix(r.list, sub)
                  /\ eng' = [a EXCEPT !.op = rulesOf(variant)[rule],
                                      !.aux = rule]
                  /\ pc' = IF r.panic THEN "crashed" ELSE pc
    /\ out' = <<>>
    /\ UNCHANGED <<variant, historyFile, historyLines, expandedMode, jsonMode,
                   loaded, submitted, saves, arg, res>>

-----------------------------------------------------------------------------
(* The end of the session. *)

\* main after p.Run returns at the end of input: saveHistory, which returns
\* without a write when the log is empty or the file does not open.
EndOfInput ==
    /\ pc = "prompt"
    /\ \E ok \in BOOLEAN :
          /\ Len(historyLines) = 0 => ok
          /\ historyFile' = IF ok THEN saveHistory(historyFile, historyLines)
                                  ELSE historyFile
          /\ eng' = Answer("save", IF ok THEN "none" ELSE "open", 0, 0, 0)
    /\ saves' = saves + 1
    /\ pc' = "done"
    /\ out' = <<>>
    /\ suggestions' = <<>>
    /\ UNCHANGED <<variant, historyLines, expandedMode, jsonMode, loaded,
                   submitted, arg, res>>

Next ==
    \/ StartFail
    \/ Start
    \/ ExecBlank
    \/ ExecExit
    \/ ExecToggleExpanded
    \/ ExecToggleJSON
    \/ ExecDescribe
    \/ ExecRelationList
    \/ ExecIndexList
    \/ ExecSchema
    \/ ExecStatement
    \/ EndOfInput

\* The session of the command router: the lines submitted to executor.
Spec == Init /\ [][Next]_vars

\* The session of the completion engine: the user types and the line editor
\* asks completer for suggestions. completer reads nothing executor writes,
\* and writes nothing executor reads but the fate of the process.
NextComplete ==
    \/ StartFail
    \/ Start
    \/ Complete
    \/ EndOfInput

SpecComplete == Init /\ [][NextComplete]_vars

TypeOK ==
    /\ variant \in Variants
    /\ pc \in PcValues
    /\ expandedMode \in BOOLEAN
    /\ jsonMode \in BOOLEAN
    /\ saves \in 0..1
    /\ Len(submitted) <= MaxSubmit

-----------------------------------------------------------------------------
(* dedupHistory as a function: the list is drawn, the function applied to  *)
(* it, and applied again to its result.                                    *)

\* The entries of the lists: two blank ones, two texts in two spellings each
\* that differ in the white space around them, and a third text.
DedupEntries ==
    { <<>>, <<" ">>,
      <<"a">>, <<" ", "a">>,
      <<"b">>, <<"b", "\n">>,
      <<"c">> }

DedupLogs == UNION { [1..n -> DedupEntries] : n \in 0..MaxLog }

\* The values of the variables a function specification does not use.
Idle ==
    /\ variant = "main"
    /\ historyLines = <<>>
    /\ expandedMode = FALSE
    /\ jsonMode = FALSE
    /\ out = <<>>
    /\ eng = NoAnswer
    /\ suggestions = <<>>
    /\ loaded = <<>>
    /\ submitted = <<>>
    /\ saves = 0

InitDedup ==
    /\ Idle
    /\ historyFile = <<>>
    /\ pc = "call"
    /\ arg \in DedupLogs
    /\ res = <<>>

DedupCall ==
    /\ pc = "call"
    /\ res' = dedupHistory(arg)
    /\ pc' = "returned"
    /\ UNCHANGED <<variant, historyFile, historyLines, expandedMode, jsonMode,
                   out, eng, suggestions, loaded, submitted, saves, arg>>

\* The second call is given the result of the first.
DedupAgain ==
    /\ pc = "returned"
    /\ arg' = res
    /\ res' = dedupHistory(res)
    /\ pc' = "again"
    /\ UNCHANGED <<variant, historyFile, historyLines, expandedMode, jsonMode,
                   out, eng, suggestions, loaded, submitted, saves>>

NextDedup == DedupCall \/ DedupAgain

SpecDedup == InitDedup /\ [][NextDedup]_vars

-----------------------------------------------------------------------------
(* The round trip of a log through the history file: saveHistory into an   *)
(* empty file, then loadHistory of that file by a fresh process.           *)

RoundChars == {"a", "-", "\n"}

\* The entries of a log as executor records them: not empty, trimmed.
RoundEntries ==
    { e \in UNION { [1..n -> RoundChars] : n \in 1..MaxRoundLen } :
        TrimSpace(e) = e }

RoundLogs == UNION { [1..n -> RoundEntries] : n \in 0..MaxRoundLog }

InitRound ==
    /\ Idle
    /\ historyFile = <<>>
    /\ pc = "call"
    /\ arg \in RoundLogs
    /\ res = <<>>

RoundSave ==
    /\ pc = "call"
    /\ historyFile' = saveHistory(historyFile, arg)
    /\ pc' = "saved"
    /\ UNCHANGED <<variant, historyLines, expandedMode, jsonMode, out, eng,
                   suggestions, loaded, submitted, saves, arg, res>>

RoundLoad ==
    /\ pc = "saved"
    /\ res' = loadHistory(historyFile, <<>>)
    /\ pc' = "returned"
    /\ UNCHANGED <<variant, historyFile, historyLines, expandedMode, jsonMode,
                   out, eng, suggestions, loaded, submitted, saves, arg>>

NextRound == RoundSave \/ RoundLoad

SpecRound == InitRound /\ [][NextRound]_vars

-----------------------------------------------------------------------------
(* The claims. *)

\* The set of the trimmed texts of the entries of a list.
trimmedSet(lines) == { TrimSpace(lines[i]) : i \in 1..Len(lines) }

\* The trimmed texts of the raw lines that are not blank, in order.
RECURSIVE trimmedNonBlank(_)
trimmedNonBlank(raw) ==
    IF raw = <<>> THEN <<>>
    ELSE (IF TrimSpace(Head(raw)) = <<>> THEN <<>> ELSE <<TrimSpace(Head(raw))>>)
         \o trimmedNonBlank(Tail(raw))

\* C1: in every state of a session that starts with both flags off, expanded
\* mode and JSON mode are not both on, whatever lines were submitted; so \x
\* turning expanded mode on leaves JSON mode off, and the reverse.
C1_ModesExclusive == ~(expandedMode /\ jsonMode)

\* C1, its case: JSON mode was turned on by \j, and \x then turned expanded
\* mode on.
C1_Witness ==
    /\ variant = "main"
    /\ submitted = <<cmdJSON, cmdExpanded>>
    /\ expandedMode
    /\ ~jsonMode

\* C2: when the session has ended, by "exit" or by the end of input,
\* saveHistory has run exactly once.
C2_SavedAtEveryEnd == pc \in {"done", "exited"} => saves = 1

\* C3: the in-memory log is the log loaded at startup followed by the trimmed
\* text of every submitted line that is not blank, in submission order; this
\* holds also where the process exited or crashed in executor, since the
\* line is recorded before it is classified.
C3_HistoryLog == historyLines = loaded \o trimmedNonBlank(submitted)

\* C3, its case: onto a loaded log, a blank line was submitted and then a
\* statement that needed trimming, repeated a loaded entry and failed.
C3_Witness ==
    /\ pc = "prompt"
    /\ Len(loaded) = 2
    /\ submitted = << <<" ">>, <<" ", "q", "\n">> >>
    /\ eng.op = "statement" /\ eng.fail = "query"
    /\ TrimSpace(loaded[2]) = <<"q">>
    /\ historyLines = Append(loaded, <<"q">>)

\* C4: a log of trimmed, non-empty entries saved to an empty history file and
\* loaded again comes back with the same set of trimmed entries.
C4_RoundTrip == pc = "returned" => trimmedSet(res) = trimmedSet(arg)

\* C5: in the result of dedupHistory no two entries have the same trimmed
\* text, no entry is blank, and the trimmed texts are those of the non-blank
\* entries of the input.
C5_DedupUnique ==
    pc = "returned" =>
        /\ \A i, j \in 1..Len(res) :
              TrimSpace(res[i]) = TrimSpace(res[j]) => i = j
        /\ \A i \in 1..Len(res) : TrimSpace(res[i]) # <<>>
        /\ trimmedSet(res) = trimmedSet(arg) \ {<<>>}

\* C5, its case: the input has a blank entry and two entries of the same
\* trimmed text, and two texts survive.
C5_Witness ==
    /\ pc = "returned"
    /\ \E i \in 1..Len(arg) : TrimSpace(arg[i]) = <<>>
    /\ \E i, j \in 1..Len(arg) :
          i # j /\ arg[i] # arg[j] /\ TrimSpace(arg[i]) = TrimSpace(arg[j])
               /\ TrimSpace(arg[i]) # <<>>
    /\ Len(res) = 2

\* The entries of lines at the indices from i on that are not blank and have
\* no later entry of the same trimmed text.
RECURSIVE latestOccurrences(_, _)
latestOccurrences(lines, i) ==
    IF i > Len(lines) THEN <<>>
    ELSE (IF /\ TrimSpace(lines[i]) # <<>>
             /\ \A j \in (i + 1)..Len(lines) :
                   TrimSpace(lines[j]) # TrimSpace(lines[i])
          THEN <<lines[i]>> ELSE <<>>)
         \o latestOccurrences(lines, i + 1)

C8_FailedStatement ==
    [][ (eng'.op = "statement" /\ eng'.fail = "query") =>
            /\ out' = <<"Query failed">>
            /\ expandedMode' = expandedMode
            /\ jsonMode' = jsonMode
            /\ pc' = "prompt"
            /\ historyLines' =
                  Append(historyLines, TrimSpace(submitted'[Len(submitted')]))
      ]_vars

\* C8, its case: with expanded mode on, a statement failed.
C8_Witness ==
    /\ eng.op = "statement" /\ eng.fail = "query"
    /\ expandedMode
    /\ pc = "prompt"
    /\ out = <<"Query failed">>
    /\ historyLines[Len(historyLines)] = <<"q">>

\* The failures of one command: the engine fails the statement, a Scan fails
\* while the result of a statement is rendered, or a query of a schema
\* meta-command fails.
PerCommandFailure(a) ==
    \/ a.op = "statement" /\ (a.fail = "query" \/ a.scanErr > 0)
    \/ a.op \in {"describe", "relations", "indexes", "schema"} /\ a.fail # "none"

ErrorMessages ==
    { "Query failed", "Error printing expanded", "JSON output error",
      "Error printing table", "Schema error", "Error", "Schema query failed",
      "No such table." }

\* C9: after a step with a failure of the command, an error message was
\* printed and the process is back at the prompt.
C9_FailuresReported ==
    PerCommandFailure(eng) =>
        /\ pc = "prompt"
        /\ \E i \in 1..Len(out) : out[i] \in ErrorMessages

\* C10: after a completer call whose schema query failed, the suggestion
\* list is empty, nothing was printed and the process is at the prompt, in
\* both variants.
C10_CompletionFailureSilent ==
    (eng.op \in {"tables", "columns"} /\ eng.fail = "query") =>
        /\ suggestions = <<>>
        /\ out = <<>>
        /\ pc = "prompt"

\* The query of the last call of executor.
lastQuery == TrimSpace(submitted[Len(submitted)])

\* C11, as claimed: in the main variant no line that begins with \d (\di
\* included) or with .schema is forwarded to the engine.
C11_NoReservedPrefixForwarded ==
    (variant = "main" /\ eng.op = "statement") =>
        /\ ~HasPrefix(lastQuery, cmdRelations)
        /\ ~HasPrefix(lastQuery, prefixSchema)

\* C11, amended: in the main variant a line is forwarded to the engine only
\* when it is none of exit, \x, \j, \d, \d; \di, \di; and begins neither with
\* "\d " (the token and a space) nor with .schema; and the describe, list and
\* schema handlers run only for the lines of their class.
C11_ForwardedOnlyUnmatched ==
    variant = "main" =>
        /\ eng.op = "statement" =>
              /\ lastQuery \notin {cmdExit, cmdExpanded, cmdJSON}
              /\ ~HasPrefix(lastQuery, prefixDescribe)
              /\ lastQuery \notin {cmdRelations, cmdRelations \o semicolon}
              /\ lastQuery \notin {cmdIndexes, cmdIndexes \o semicolon}
              /\ ~HasPrefix(lastQuery, prefixSchema)
        /\ eng.op = "describe" => HasPrefix(lastQuery, prefixDescribe)
        /\ eng.op = "relations" =>
              lastQuery \in {cmdRelations, cmdRelations \o semicolon}
        /\ eng.op = "indexes" =>
              lastQuery \in {cmdIndexes, cmdIndexes \o semicolon}
        /\ eng.op = "schema" => HasPrefix(lastQuery, prefixSchema)

\* C11, its case: the line \dt, which begins with \d and is no meta-command,
\* went to the engine.
C11_Witness ==
    /\ variant = "main"
    /\ eng.op = "statement"
    /\ lastQuery = cmdRelations \o <<"t">>
    /\ pc = "prompt"

-----------------------------------------------------------------------------
(* The cell printJSON emits for a binary value.  A value is a sequence of  *)
(* bytes (0..255); so is a text here, a Go string being its bytes: 92 and  *)
(* 120 are the backslash and x, 48..57 the digits, 97..102 the letters a   *)
(* to f and 65..70 the letters A to F.                                     *)

MaxBlobLen == 2

\* The bytes the values are drawn from: control characters, the two ends of
\* the printable range and a letter within it, DEL, a byte above 127 whose
\* hexadecimal digits are letters, and the two bytes of a UTF-8 encoded
\* U+00E9.
BlobBytes == {0, 10, 31, 32, 65, 126, 127, 171, 195, 169}

Blobs == UNION { [1..n -> BlobBytes] : n \in 0..MaxBlobLen }

\* The runes a range loop over string(v) yields from position i on: a byte
\* below 128 is its own rune, a two-byte sequence (110xxxxx 10xxxxxx, lead at
\* least 0xC2) decodes to its code point, and any other byte yields U+FFFD
\* and is one byte wide.  (Three- and four-byte sequences, whose runes are
\* above 126 as well, need lead bytes not among BlobBytes.)
RECURSIVE runesFrom(_, _)
runesFrom(v, i) ==
    IF i > Len(v) THEN <<>>
    ELSE IF v[i] < 128 THEN <<v[i]>> \o runesFrom(v, i + 1)
    ELSE IF /\ v[i] >= 194 /\ v[i] <= 223
            /\ i < Len(v)
            /\ v[i + 1] >= 128 /\ v[i + 1] <= 191
         THEN <<(v[i] - 192) * 64 + (v[i + 1] - 128)>> \o runesFrom(v, i + 2)
    ELSE <<65533>> \o runesFrom(v, i + 1)

isPrintable(v) ==
    LET runes == runesFrom(v, 1)
    IN  \A k \in 1..Len(runes) : ~(runes[k] < 32 \/ runes[k] > 126)

\* encoding/hex: two digits of "0123456789abcdef" for a byte.
hextable ==
    <<48, 49, 50, 51, 52, 53, 54, 55,
      56, 57, 97, 98, 99, 100, 101, 102>>

RECURSIVE hexEncodeFrom(_, _)
hexEncodeFrom(v, i) ==
    IF i > Len(v) THEN <<>>
    ELSE <<hextable[(v[i] \div 16) + 1], hextable[(v[i] % 16) + 1]>>
         \o hexEncodeFrom(v, i + 1)

hexEncodeToString(v) == hexEncodeFrom(v, 1)

\* The []byte case of printJSON: the value of the cell in the row map.
jsonCell(v) ==
    IF isPrintable(v) THEN v
    ELSE <<92, 120>> \o hexEncodeToString(v)

InitJSON ==
    /\ Idle
    /\ historyFile = <<>>
    /\ pc = "call"
    /\ arg \in Blobs
    /\ res = <<>>

JSONCell ==
    /\ pc = "call"
    /\ res' = jsonCell(arg)
    /\ pc' = "returned"
    /\ UNCHANGED <<variant, historyFile, historyLines, expandedMode, jsonMode,
                   out, eng, suggestions, loaded, submitted, saves, arg>>

NextJSON == JSONCell

SpecJSON == InitJSON /\ [][NextJSON]_vars

\* The digits of "0123456789ABCDEF".
upperHexDigits ==
    <<48, 49, 50, 51, 52, 53, 54, 55,
      56, 57, 65, 66, 67, 68, 69, 70>>

upperHex(v) ==
    [i \in 1..(2 * Len(v)) |->
        IF i % 2 = 1 THEN upperHexDigits[(v[(i + 1) \div 2] \div 16) + 1]
        ELSE upperHexDigits[(v[i \div 2] % 16) + 1]]

\* C12: in JSON mode a binary cell whose bytes are all printable ASCII
\* (32..126) is emitted as that text, and any other binary cell as \x followed
\* by the upper-case hexadecimal digits of its bytes.
C12_BinaryCell ==
    pc = "returned" =>
        res = IF \A i \in 1..Len(arg) : arg[i] >= 32 /\ arg[i] <= 126
              THEN arg
              ELSE <<92, 120>> \o upperHex(arg)

-----------------------------------------------------------------------------
(* The alignment printPrettyTable gives the columns.  A table is the       *)
(* sequence of its rows, a row the texts formatValue made of its values.   *)

MaxTableRows == 2

\* The formatted values: the empty text, a word, a number, a number with sign,
\* fraction and exponent, a number followed by a letter, a date-like text, a
\* number after a space, and a number with an exponent that has no digits.
\* None has a letter of NaN, Inf, 0x or a p exponent, nor an underscore: the
\* branches of the scanner for those are left out below.
Cells ==
    { <<>>,
      <<"a">>,
      <<"4", "2">>,
      <<"-", "4", ".", "2", "e", "1">>,
      <<"4", "a">>,
      <<"4", "-", "2">>,
      <<" ", "4">>,
      <<"4", "e">> }

\* The rows have two columns.
TableRows == { <<c1, c2>> : c1 \in Cells, c2 \in Cells }

Tables == UNION { [1..n -> TableRows] : n \in 0..MaxTableRows }

sign == {"+", "-"}

decimalDigits == {"0", "1", "2", "3", "4", "5", "6", "7", "8", "9"}

exponent == {"e", "E"}

\* s.accept(set) once at position i: the position after it.
accept(s, i, set) == IF i <= Len(s) /\ s[i] \in set THEN i + 1 ELSE i

\* for s.accept(set) {} from position i: the position after the run.
RECURSIVE acceptAll(_, _, _)
acceptAll(s, i, set) ==
    IF i <= Len(s) /\ s[i] \in set THEN acceptAll(s, i + 1, set) ELSE i

\* fmt's SkipSpace from position i: the position of the first character that
\* is no space, or 0 where a newline is met (the scan fails on it).
RECURSIVE SkipSpace(_, _)
SkipSpace(s, i) ==
    IF i > Len(s) THEN i
    ELSE IF s[i] = "\n" THEN 0
    ELSE IF s[i] \in WhiteSpace THEN SkipSpace(s, i + 1)
    ELSE i

\* fmt's floatToken from position i: the position after the token, which is an
\* optional sign, digits, an optional period with digits, and an optional
\* exponent letter with an optional sign and digits.
floatToken(s, i) ==
    LET p1 == accept(s, i, sign)
        p2 == acceptAll(s, p1, decimalDigits)
        p3 == IF accept(s, p2, {"."}) > p2
              THEN acceptAll(s, p2 + 1, decimalDigits) ELSE p2
        p4 == IF accept(s, p3, exponent) > p3
              THEN acceptAll(s, accept(s, p3 + 1, sign), decimalDigits)
              ELSE p3
    IN  p4

\* strconv.ParseFloat of a decimal text succeeds: the whole text is an
\* optional sign, a mantissa with at least one digit and at most one period,
\* and an optional exponent with at least one digit.
ParseFloat(s) ==
    LET p1 == accept(s, 1, sign)
        p2 == acceptAll(s, p1, decimalDigits)
        sawdot == accept(s, p2, {"."}) > p2
        p3 == IF sawdot THEN acceptAll(s, p2 + 1, decimalDigits) ELSE p2
        sawdigits == p2 > p1 \/ (sawdot /\ p3 > p2 + 1)
        hasexp == accept(s, p3, exponent) > p3
        p4 == accept(s, p3 + 1, sign)
        p5 == acceptAll(s, p4, decimalDigits)
    IN  /\ sawdigits
        /\ IF hasexp THEN p5 > p4 /\ p5 = Len(s) + 1
           ELSE p3 = Len(s) + 1

\* fmt.Sscanf(s, "%f", ...) returns no error: spaces are skipped, the input
\* is not at its end, and the float token read there converts.  What follows
\* the token is not looked at.
isNumeric(s) ==
    LET start == SkipSpace(s, 1)
    IN  /\ start # 0
        /\ start <= Len(s)
        /\ ParseFloat(SubSeq(s, start, floatToken(s, start) - 1))

\* The columns (numbered from 1) printPrettyTable configures as right-aligned:
\* those whose text in sampleRow, the first row if there is one, is numeric.
columnConfigs(rows) ==
    LET sampleRow == IF Len(rows) > 0 THEN rows[1] ELSE <<>>
    IN  { i \in 1..Len(sampleRow) : isNumeric(sampleRow[i]) }

InitTable ==
    /\ Idle
    /\ historyFile = <<>>
    /\ pc = "call"
    /\ arg \in Tables
    /\ res = {}

TableCall ==
    /\ pc = "call"
    /\ res' = columnConfigs(arg)
    /\ pc' = "returned"
    /\ UNCHANGED <<variant, historyFile, historyLines, expandedMode, jsonMode,
                   out, eng, suggestions, loaded, submitted, saves, arg>>

NextTable == TableCall

SpecTable == InitTable /\ [][NextTable]_vars

\* C13: in Table mode a column is right-aligned exactly when the formatted
\* value of the first result row in that column, its whole text, parses as a
\* floating-point number; later rows do not matter, and with no rows no column
\* is right-aligned.
C13_RightAligned ==
    pc = "returned" =>
        \A col \in 1..2 :
            col \in res <=> (Len(arg) > 0 /\ ParseFloat(arg[1][col]))

\* What each render path prints.
ExpandedEvents ==
    {"Record", "Failed to scan row", "Error printing expanded",
     "No rows found."}

JSONEvents == {"JSONArray", "JSONObject", "JSON output error"}

TableEvents == {"TableHeader", "TableRow", "Error printing table"}

outEvents == { out[i] : i \in 1..Len(out) }

\* C14: for a statement the engine executed, the render path of the active
\* mode runs and no other; "No rows found." is printed exactly when the
\* result has no rows and the mode is Expanded, and then no record is
\* printed; in Table mode a result without rows prints the header alone.
C14_OneRenderPath ==
    (eng.op = "statement" /\ eng.fail = "none") =>
        /\ out # <<>>
        /\ expandedMode => outEvents \subseteq ExpandedEvents
        /\ (~expandedMode /\ jsonMode) => outEvents \subseteq JSONEvents
        /\ (~expandedMode /\ ~jsonMode) => outEvents \subseteq TableEvents
        /\ "No rows found." \in outEvents <=> (eng.rows = 0 /\ expandedMode)
        /\ (eng.rows = 0 /\ expandedMode) => out = <<"No rows found.">>
        /\ (eng.rows = 0 /\ ~expandedMode /\ ~jsonMode) =>
              out = <<"TableHeader">>

\* C14, its case: a statement without rows was rendered in Expanded mode.
C14_Witness ==
    /\ eng.op = "statement"
    /\ eng.fail = "none"
    /\ eng.rows = 0
    /\ expandedMode
    /\ out = <<"No rows found.">>

\* The length of the block of an entry: the sentinel line, the entry, and a
\* newline unless the entry ends in one.
blockLen(e) ==
    Len(customHistoryDelimiter) + 1 + Len(e)
        + (IF e # <<>> /\ e[Len(e)] = "\n" THEN 0 ELSE 1)

\* Where the block of entry i begins in what is written for the log: after
\* the blocks of the entries before it.
RECURSIVE blockStart(_, _)
blockStart(log, i) ==
    IF i = 1 THEN 0 ELSE blockStart(log, i - 1) + blockLen(log[i - 1])

\* tail holds one block for each entry of log, in the order of log, and
\* nothing else.
IsBlocksOf(tail, log) ==
    /\ Len(tail) = blockStart(log, Len(log) + 1)
    /\ \A i \in 1..Len(log) :
          LET at == blockStart(log, i)
              d == Len(customHistoryDelimiter)
          IN  /\ SubSeq(tail, at + 1, at + d) = customHistoryDelimiter
              /\ tail[at + d + 1] = "\n"
              /\ SubSeq(tail, at + d + 2, at + d + 1 + Len(log[i])) = log[i]
              /\ tail[at + blockLen(log[i])] = "\n"

\* C15: a save that opens the file leaves what the file held as a prefix and
\* appends one sentinel-delimited block for each entry of the log, loaded or
\* submitted, repeated or not, in the order of the log, each ending in a
\* newline; with an empty log the file is left as it is.
C15_SaveAppends ==
    [][ (eng'.op = "save" /\ eng'.fail = "none") =>
            /\ Len(historyFile') >= Len(historyFile)
            /\ SubSeq(historyFile', 1, Len(historyFile)) = historyFile
            /\ IsBlocksOf(SubSeq(historyFile', Len(historyFile) + 1,
                                 Len(historyFile')),
                          historyLines)
            /\ historyLines = <<>> => historyFile' = historyFile
      ]_vars

\* C15, its case: a log of loaded and submitted entries, one of them repeated,
\* was saved onto a file that held entries before.
C15_Witness ==
    /\ pc = "done"
    /\ eng.op = "save"
    /\ eng.fail = "none"
    /\ loaded # <<>>
    /\ submitted # <<>>
    /\ \E i, j \in 1..Len(historyLines) : i < j /\ historyLines[i] = historyLines[j]
    /\ historyFile \notin InitFiles
    /\ \E f \in InitFiles : f # <<>> /\ HasPrefix(historyFile, f)

-----------------------------------------------------------------------------
(* Consecutive sessions on one history file: a process that ended is       *)
(* followed by a new one, which starts from the file the ended one left.   *)

MaxSessions == 2

\* The user runs the program again after a session that read its input to
\* the end: a new process, its variables as declared.  res collects, for each
\* session that ended, its log at the end and whether its save opened the file.
Restart ==
    /\ pc = "done"
    /\ Len(res) < MaxSessions - 1
    /\ res' = Append(res, [log |-> historyLines, saved |-> eng.fail = "none"])
    /\ pc' = "start"
    /\ historyLines' = <<>>
    /\ expandedMode' = FALSE
    /\ jsonMode' = FALSE
    /\ out' = <<>>
    /\ eng' = NoAnswer
    /\ suggestions' = <<>>
    /\ loaded' = <<>>
    /\ submitted' = <<>>
    /\ saves' = 0
    /\ UNCHANGED <<variant, historyFile, arg>>

\* The sessions: of the meta-commands, all of which executor adds to the log
\* before it looks at them, the toggle of the expanded display stands for
\* the others.
NextSessions ==
    \/ Start
    \/ ExecBlank
    \/ ExecToggleExpanded
    \/ ExecStatement
    \/ EndOfInput
    \/ Restart

\* The first session is that of a user without history.
InitSessions == Init /\ historyFile = <<>>

SpecSessions == InitSessions /\ [][NextSessions]_vars

\* C16: when a session ended by end of input and its save opened the file,
\* the history the next session loads is dedupHistory of the log the ended
\* session had at its end: the same entries in the same order.
C16_NextSessionLoads ==
    ( /\ res # <<>>
      /\ res[Len(res)].saved
      /\ eng.op = "load"
      /\ eng.fail = "none" ) =>
        loaded = dedupHistory(res[Len(res)].log)

====
